---- MODULE Spec2Model ----
(***************************************************************************)
(* Hawk-Eye AI impersonation detector (AlgoAlchemy/app.py).                *)
(*                                                                         *)
(* Strings whose characters matter (handles, post texts, keywords) are     *)
(* sequences of one-character strings.  Floats with two decimals are       *)
(* integers counting hundredths (1.0 -> 100, 0.99 -> 99, 90.0% -> 9000).   *)
(* Every random.randint / random.uniform draw is a nondeterministic        *)
(* choice.                                                                 *)
(***************************************************************************)
EXTENDS Integers, Sequences, FiniteSets, TLC

VARIABLES
    suspect_url,            \* st.text_input "url_input"
    suspect_handle,         \* st.text_input "handle_input_v3"
    suspect_posts,          \* st.text_area
    urgency_tone_risk,      \* st.selectbox "urgency_check"
    phishing_link_risk,     \* st.selectbox "phishing_check"
    risk_profile_selection, \* st.radio "age_check"
    profile_pic_stolen,     \* st.selectbox "pic_check"
    domain_age_risk,        \* st.selectbox "domain_check"
    session_state,          \* st.session_state: a function on the keys present
    screen,                 \* what the last run of the script rendered
    calls,                  \* history: the calculate_risk_score calls of the last script run
    last_run,               \* history: what the last successful analysis took and returned
    risk_score,             \* argument of get_action_suggestion / create_html_report
    pc,                     \* position of a function under test
    ret                     \* its return value

vars == <<suspect_url, suspect_handle, suspect_posts, urgency_tone_risk,
          phishing_link_risk, risk_profile_selection, profile_pic_stolen,
          domain_age_risk, session_state, screen, calls, last_run, risk_score,
          pc, ret>>

widgets == <<suspect_url, suspect_handle, suspect_posts, urgency_tone_risk,
             phishing_link_risk, risk_profile_selection, profile_pic_stolen,
             domain_age_risk>>

----------------------------------------------------------------------------
(* Configuration                                                           *)

OFFICIAL_HANDLE == <<"O","d","i","s","h","a","_","P","o","l","i","c","e">>

RISK_THRESHOLD_HIGH == 70

RISK_THRESHOLD_MEDIUM == 40

----------------------------------------------------------------------------
(* Python string operations                                                *)

Min(a, b) == IF a < b THEN a ELSE b

Max(a, b) == IF a > b THEN a ELSE b

Range(f) == {f[i] : i \in DOMAIN f}

LowerLetters == <<"a","b","c","d","e","f","g","h","i","j","k","l","m","n","o","p","q","r","s","t","u","v","w","x","y","z">>

UpperLetters == <<"A","B","C","D","E","F","G","H","I","J","K","L","M","N","O","P","Q","R","S","T","U","V","W","X","Y","Z">>

\* the characters str.strip() removes (those the model produces)
Whitespace == {" ", "\t", "\n"}

lower_char(c) ==
    IF \E i \in 1..26 : UpperLetters[i] = c
    THEN LowerLetters[CHOOSE i \in 1..26 : UpperLetters[i] = c]
    ELSE c

\* str.lower()
lower(s) == [i \in 1..Len(s) |-> lower_char(s[i])]

\* str.strip(): drops the leading and the trailing whitespace
strip(s) ==
    LET keep == {i \in 1..Len(s) : s[i] \notin Whitespace}
    IN  IF keep = {} THEN <<>>
        ELSE LET first == CHOOSE i \in keep : \A j \in keep : i <= j
                 last  == CHOOSE i \in keep : \A j \in keep : i >= j
             IN  SubSeq(s, first, last)

\* c in s, for one character c
has_char(s, c) == \E i \in 1..Len(s) : s[i] = c

\* s.replace(old, new, 1) for single characters: only the first occurrence
replace_first(s, old, new) ==
    IF ~has_char(s, old) THEN s
    ELSE LET p == CHOOSE i \in 1..Len(s) :
                      s[i] = old /\ \A j \in 1..(i - 1) : s[j] # old
         IN  [s EXCEPT ![p] = new]

\* sum(a != b for a, b in zip(x, y)): zip stops at the shorter string
zip_diff(x, y) ==
    Cardinality({i \in 1..Min(Len(x), Len(y)) : x[i] # y[i]})

\* sub in s, for strings
contains(s, sub) ==
    \E i \in 0..(Len(s) - Len(sub)) : SubSeq(s, i + 1, i + Len(sub)) = sub

----------------------------------------------------------------------------
(* get_similarity_score: 1.0 -> 100, 0.99 -> 99, 0.90 -> 90, 0.20 -> 20    *)

\* the single-character test with the zero/letter-o test after it
get_similarity_score_SingleFirst(handle, official_handle) ==
    LET suspect_lower  == strip(lower(handle))
        official_lower == strip(lower(official_handle))
    IN  IF suspect_lower = official_lower THEN 100
        ELSE IF /\ Len(handle) = Len(official_handle)
                /\ zip_diff(suspect_lower, official_lower) = 1 THEN 90
        ELSE IF /\ replace_first(suspect_lower, "0", "o") = official_lower
                /\ has_char(suspect_lower, "0") THEN 99
        ELSE 20

\* the single-character test made on the handle as typed, case included
get_similarity_score_CaseSensitive(handle, official_handle) ==
    LET suspect_lower  == strip(lower(handle))
        official_lower == strip(lower(official_handle))
    IN  IF suspect_lower = official_lower THEN 100
        ELSE IF /\ replace_first(suspect_lower, "0", "o") = official_lower
                /\ has_char(suspect_lower, "0") THEN 99
        ELSE IF /\ Len(handle) = Len(official_handle)
                /\ zip_diff(handle, official_handle) = 1 THEN 90
        ELSE 20

get_similarity_score(handle, official_handle) ==
    LET suspect_lower  == strip(lower(handle))
        official_lower == strip(lower(official_handle))
    IN  IF suspect_lower = official_lower THEN 100
        ELSE IF /\ replace_first(suspect_lower, "0", "o") = official_lower
                /\ has_char(suspect_lower, "0") THEN 99
        ELSE IF /\ Len(handle) = Len(official_handle)
                /\ zip_diff(suspect_lower, official_lower) = 1 THEN 90
        ELSE 20

----------------------------------------------------------------------------
(* keyword_scan_score                                                      *)

fraud_keywords ==
    << <<"o","t","p">>,
       <<"w","a","l","l","e","t">>,
       <<"s","e","n","d"," ","m","o","n","e","y">>,
       <<"u","r","g","e","n","t"," ","f","u","n","d","s">>,
       <<"t","r","a","n","s","f","e","r"," ","n","o","w">>,
       <<"f","i","n","e">>,
       <<"p","e","n","a","l","t","y">>,
       <<"a","c","c","o","u","n","t"," ","f","r","o","z","e","n">>,
       <<"k","y","c"," ","u","p","d","a","t","e">>,
       <<"c","l","i","c","k"," ","l","i","n","k">>,
       <<"t","a","x"," ","r","e","f","u","n","d">>,
       <<"j","a","i","l">> >>

kw_urgent == <<"u","r","g","e","n","t">>

kw_money == <<"m","o","n","e","y">>

kw_fund == <<"f","u","n","d">>

\* for keyword in fraud_keywords: if keyword in post_content.lower(): risk += 15
RECURSIVE keyword_loop(_, _, _)
keyword_loop(text, k, risk) ==
    IF k > Len(fraud_keywords) THEN risk
    ELSE keyword_loop(text, k + 1,
                      IF contains(text, fraud_keywords[k]) THEN risk + 15 ELSE risk)

\* the scan made on the text as typed, without lower()
keyword_scan_score_CaseSensitive(post_content) ==
    LET text  == post_content
        risk0 == IF /\ contains(text, kw_urgent)
                    /\ (contains(text, kw_money) \/ contains(text, kw_fund))
                 THEN 25 ELSE 0
    IN  Min(keyword_loop(text, 1, risk0), 60)

keyword_scan_score(post_content) ==
    LET text  == lower(post_content)
        risk0 == IF /\ contains(text, kw_urgent)
                    /\ (contains(text, kw_money) \/ contains(text, kw_fund))
                 THEN 25 ELSE 0
    IN  Min(keyword_loop(text, 1, risk0), 60)

----------------------------------------------------------------------------
(* calculate_risk_score                                                    *)

\* random.randint(a, b)
randint(a, b) == a..b

\* round(random.uniform(a, b), 2) in hundredths: the two ends of the band
\* stand for the values between them
uniform(a, b) == {a, b}

\* random.randint(a, b) for the simulated account age, shown but never
\* scored: the two ends of the range stand for the days between them
randint_days(a, b) == {a, b}

\* lines 67-76 without the branch for the exact match
identity_risk_choices_NoExact(identity_score) ==
    IF identity_score = 99 THEN {43 + r : r \in randint(0, 2)}
    ELSE IF identity_score = 90 THEN {25 + r : r \in randint(0, 5)}
    ELSE {5 + r : r \in randint(0, 5)}

\* lines 67-76: identity_risk
identity_risk_choices(identity_score) ==
    IF identity_score = 100 THEN {0}
    ELSE IF identity_score = 99 THEN {43 + r : r \in randint(0, 2)}
    ELSE IF identity_score = 90 THEN {25 + r : r \in randint(0, 5)}
    ELSE {5 + r : r \in randint(0, 5)}

\* lines 79-86 with the test for subtle typos (>= 0.90) made first
confidence_band_TypoFirst(identity_score) ==
    IF identity_score >= 90 THEN <<7000, 8990>>
    ELSE IF identity_score = 100 \/ identity_score <= 20 THEN <<9000, 9990>>
    ELSE <<5000, 6990>>

\* lines 79-86: the band of confidence_score, <<low, high>> in hundredths
confidence_band(identity_score) ==
    IF identity_score = 100 \/ identity_score <= 20 THEN <<9000, 9990>>
    ELSE IF identity_score >= 90 THEN <<7000, 8990>>
    ELSE <<5000, 6990>>

\* lines 93-97: urgency_points
urgency_points_of(urgency_risk) ==
    IF urgency_risk = "High Urgency (Threat/Panic)" THEN 15
    ELSE IF urgency_risk = "Medium Urgency (Time Pressure)" THEN 7
    ELSE 0

\* line 100: int(behavior_risk_raw * (25 / 60)); the float product truncates
\* to the integer quotient for every raw score 0..60
keyword_points_of(behavior_risk_raw) == (behavior_risk_raw * 25) \div 60

\* lines 114-118: domain_age_points
domain_age_points_of(domain_risk) ==
    IF domain_risk = "High Risk (New/Suspicious Domain)" THEN 3
    ELSE IF domain_risk = "Medium Risk (Recently Updated Domain)" THEN 1
    ELSE 0

\* lines 121-125: phishing_points
phishing_points_of(phishing_risk) ==
    IF phishing_risk = "Homoglyph/Typosquatting Detected" THEN 3
    ELSE IF phishing_risk = "Malicious Domain Structure Detected" THEN 1
    ELSE 0

\* lines 128-130: stolen_pic_points
stolen_pic_points_of(pic_stolen) ==
    IF pic_stolen = "Yes (Stolen/Official Image Match)" THEN 4 ELSE 0

\* lines 107-111 with the test on is_established_account inverted
account_age_choices_Inverted(is_established_account) ==
    IF is_established_account
    THEN {<<5 + r, d>> : r \in randint(0, 2), d \in randint_days(1, 90)}
    ELSE {<<0, d>> : d \in randint_days(300, 500)}

\* lines 107-111: <<points added to network_risk, account_age_days>>
account_age_choices(is_established_account) ==
    IF ~is_established_account
    THEN {<<5 + r, d>> : r \in randint(0, 2), d \in randint_days(1, 90)}
    ELSE {<<0, d>> : d \in randint_days(300, 500)}

\* lines 132-134 without the min
network_total_NoClamp(new_account_points, domain_age_points, phishing_points, stolen_pic_points) ==
    new_account_points + domain_age_points + phishing_points + stolen_pic_points

\* lines 132-134: network_risk
network_total(new_account_points, domain_age_points, phishing_points, stolen_pic_points) ==
    Min(new_account_points + domain_age_points + phishing_points + stolen_pic_points, 15)

\* lines 139-140 without the max
clamp_score_NoFloor(final_score_raw, jitter) ==
    Min(final_score_raw + jitter, 100)

\* lines 139-140 with the jitter added after the score is capped
clamp_score_JitterAfter(final_score_raw, jitter) ==
    Max(Min(final_score_raw, 100), 0) + jitter

\* lines 139-140: min(final_score_raw + jitter, 100), then max(final_score, 0)
clamp_score(final_score_raw, jitter) ==
    Max(Min(final_score_raw + jitter, 100), 0)

\* the set of <<final_score, breakdown>> the call can return
calculate_risk_score(handle, recent_posts, is_established, domain_risk, pic_stolen, urgency_risk, phishing_risk) ==
    LET identity_score    == get_similarity_score(handle, OFFICIAL_HANDLE)
        band              == confidence_band(identity_score)
        behavior_risk_raw == keyword_scan_score(recent_posts)
        urgency_points    == urgency_points_of(urgency_risk)
        keyword_points    == keyword_points_of(behavior_risk_raw)
        behavior_risk     == Min(keyword_points + urgency_points, 40)
        domain_age_points == domain_age_points_of(domain_risk)
        phishing_points   == phishing_points_of(phishing_risk)
        stolen_pic_points == stolen_pic_points_of(pic_stolen)
    IN  { LET network_risk    == network_total(age[1], domain_age_points,
                                               phishing_points, stolen_pic_points)
              final_score_raw == identity_risk + behavior_risk + network_risk
          IN  << clamp_score(final_score_raw, jitter),
                 ( "Handle Similarity Score (%)" :> identity_score * 100
                   @@ "Identity Risk Points (Max 45)" :> identity_risk
                   @@ "Keyword Scan Points (Max 25)" :> keyword_points
                   @@ "Urgency Tone Points (Max 15)" :> urgency_points
                   @@ "Behavioral Risk Points (Max 40)" :> behavior_risk
                   @@ "Network/Metadata Risk Points (Max 15)" :> network_risk
                   @@ "Account Age (Days)" :> age[2]
                   @@ "Domain Age Risk Points" :> domain_age_points
                   @@ "Phishing Link Points" :> phishing_points
                   @@ "Stolen Picture Risk Points" :> stolen_pic_points
                   @@ "Confidence Score (%)" :> confidence_score ) >>
          : identity_risk \in identity_risk_choices(identity_score),
            confidence_score \in uniform(band[1], band[2]),
            age \in account_age_choices(is_established),
            jitter \in randint(-5, 5) }

----------------------------------------------------------------------------
(* get_action_suggestion and the colour of create_html_report              *)

\* the thresholds compared with > instead of >=
get_action_suggestion_Strict(score) ==
    IF score > RISK_THRESHOLD_HIGH
    THEN <<"IMMEDIATE TAKEDOWN & FORENSIC TRACE", "error",
           "HIGH RISK: IMMEDIATE TAKEDOWN REQUIRED">>
    ELSE IF score > RISK_THRESHOLD_MEDIUM
    THEN <<"MANDATORY MANUAL REVIEW & MONITORING", "warning",
           "MEDIUM RISK: INVESTIGATE URGENTLY">>
    ELSE <<"SCHEDULED RE-EVALUATION", "info", "LOW RISK: MONITOR">>

\* <<suggestion text (its heading), style, risk label>>
get_action_suggestion(score) ==
    IF score >= RISK_THRESHOLD_HIGH
    THEN <<"IMMEDIATE TAKEDOWN & FORENSIC TRACE", "error",
           "HIGH RISK: IMMEDIATE TAKEDOWN REQUIRED">>
    ELSE IF score >= RISK_THRESHOLD_MEDIUM
    THEN <<"MANDATORY MANUAL REVIEW & MONITORING", "warning",
           "MEDIUM RISK: INVESTIGATE URGENTLY">>
    ELSE <<"SCHEDULED RE-EVALUATION", "info", "LOW RISK: MONITOR">>

\* lines 183-188 with the thresholds compared with > instead of >=
risk_color_of_Strict(final_score) ==
    IF final_score > RISK_THRESHOLD_HIGH THEN "#CC0000"
    ELSE IF final_score > RISK_THRESHOLD_MEDIUM THEN "#FFCC00"
    ELSE "#008000"

\* create_html_report, lines 183-188: risk_color
risk_color_of(final_score) ==
    IF final_score >= RISK_THRESHOLD_HIGH THEN "#CC0000"
    ELSE IF final_score >= RISK_THRESHOLD_MEDIUM THEN "#FFCC00"
    ELSE "#008000"

----------------------------------------------------------------------------
(* The page as Streamlit first renders it                                  *)

UrgencyOptions ==
    <<"Low Urgency (Normal Inquiry)", "Medium Urgency (Time Pressure)",
      "High Urgency (Threat/Panic)">>

PhishingOptions ==
    <<"No Suspicion Detected", "Malicious Domain Structure Detected",
      "Homoglyph/Typosquatting Detected">>

ProfileOptions ==
    <<"High Risk Profile (New/Unestablished Account)",
      "Low Risk Profile (Established Account)">>

PictureOptions ==
    <<"No (Unique/No Match)", "Yes (Stolen/Official Image Match)">>

DomainOptions ==
    <<"Low Risk (Established Domain)", "Medium Risk (Recently Updated Domain)",
      "High Risk (New/Suspicious Domain)">>

\* text inputs start empty, every selection at index=0
DefaultWidgets ==
    /\ suspect_url = ""
    /\ suspect_handle = <<>>
    /\ suspect_posts = <<>>
    /\ urgency_tone_risk = UrgencyOptions[1]
    /\ phishing_link_risk = PhishingOptions[1]
    /\ risk_profile_selection = ProfileOptions[1]
    /\ profile_pic_stolen = PictureOptions[1]
    /\ domain_age_risk = DomainOptions[1]

\* line 496
is_established_account == risk_profile_selection = "Low Risk Profile (Established Account)"

\* st.session_state of a new session: no key
EmptySessionState == [k \in {} |-> 0]

\* the first render: no message, no result section, no download button
BlankScreen == [error |-> FALSE, success |-> FALSE, results |-> {}, report |-> {}]

NoSession ==
    /\ session_state = EmptySessionState
    /\ screen = BlankScreen
    /\ calls = {}
    /\ last_run = {}

----------------------------------------------------------------------------
(* Handles given to get_similarity_score: the official handle with up to   *)
(* MaxEdits characters replaced, possibly one character shorter, padded    *)
(* with up to MaxPad blanks on each side, as typed or in capitals.         *)

MaxEdits == 2

MaxPad == 1

EditChars == {"0", "x"}

upper_char(c) ==
    IF \E i \in 1..26 : LowerLetters[i] = c
    THEN UpperLetters[CHOOSE i \in 1..26 : LowerLetters[i] = c]
    ELSE c

upper(s) == [i \in 1..Len(s) |-> upper_char(s[i])]

RECURSIVE EditedHandles(_)
EditedHandles(n) ==
    IF n = 0 THEN {OFFICIAL_HANDLE}
    ELSE LET prev == EditedHandles(n - 1)
         IN  prev \cup {[s EXCEPT ![i] = c] : s \in prev, i \in 1..Len(OFFICIAL_HANDLE), c \in EditChars}

Shortened(s) == {s, SubSeq(s, 1, Len(s) - 1), SubSeq(s, 2, Len(s))}

Blanks(n) == [i \in 1..n |-> " "]

Padded(s) == {Blanks(l) \o s \o Blanks(r) : l \in 0..MaxPad, r \in 0..MaxPad}

CaseVariants(s) == {s, upper(s)}

InitSim ==
    /\ \E s \in EditedHandles(MaxEdits) : \E t \in Shortened(s) :
           \E u \in Padded(t) : suspect_handle \in CaseVariants(u)
    /\ suspect_url = ""
    /\ suspect_posts = <<>>
    /\ urgency_tone_risk = UrgencyOptions[1]
    /\ phishing_link_risk = PhishingOptions[1]
    /\ risk_profile_selection = ProfileOptions[1]
    /\ profile_pic_stolen = PictureOptions[1]
    /\ domain_age_risk = DomainOptions[1]
    /\ NoSession
    /\ risk_score = 0
    /\ pc = "call"
    /\ ret = 0

\* identity_score = get_similarity_score(handle, OFFICIAL_HANDLE)
EvalSimilarity ==
    /\ pc = "call"
    /\ ret' = get_similarity_score(suspect_handle, OFFICIAL_HANDLE)
    /\ pc' = "done"
    /\ UNCHANGED <<widgets, session_state, screen, calls, last_run, risk_score>>

NextSim == EvalSimilarity

SpecSim == InitSim /\ [][NextSim]_vars

----------------------------------------------------------------------------
(* Claims about get_similarity_score (SpecSim)                             *)

\* positions where two strings of equal length differ, case ignored
CaseInsensitiveDiffs(a, b) ==
    {i \in 1..Min(Len(a), Len(b)) : lower_char(a[i]) # lower_char(b[i])}

OneCharApart(a, b) ==
    Len(a) = Len(b) /\ Cardinality(CaseInsensitiveDiffs(a, b)) = 1

NoOuterWhitespace(s) ==
    s = <<>> \/ (s[1] \notin Whitespace /\ s[Len(s)] \notin Whitespace)

\* the one differing character is the candidate's first 0, over a letter o
ZeroOverLetterO(a, b) ==
    \E p \in CaseInsensitiveDiffs(a, b) :
        /\ a[p] = "0"
        /\ lower_char(b[p]) = "o"
        /\ \A j \in 1..(p - 1) : a[j] # "0"

\* C4 as stated: every equal-length pair differing in exactly one position,
\* case ignored, is rated single-char-diff (0.90).
C4_AsStated ==
    (pc = "done" /\ OneCharApart(suspect_handle, OFFICIAL_HANDLE)) => ret = 90

\* C4 amended: an equal-length pair without outer whitespace that differs in
\* exactly one position, case ignored, is rated single-char-diff (0.90),
\* unless that one character is the candidate's first 0 over a letter o:
\* then near-exact (0.99) wins.
C4_SingleCharDiff ==
    (/\ pc = "done"
     /\ OneCharApart(suspect_handle, OFFICIAL_HANDLE)
     /\ NoOuterWhitespace(suspect_handle))
    => ret = IF ZeroOverLetterO(suspect_handle, OFFICIAL_HANDLE) THEN 99 ELSE 90

C4_Witness ==
    /\ pc = "done"
    /\ suspect_handle = <<"X","D","I","S","H","A","_","P","O","L","I","C","E">>
    /\ OneCharApart(suspect_handle, OFFICIAL_HANDLE)
    /\ ret = 90

\* C5: a candidate that is no exact match, holds a 0, and equals the
\* reference (case ignored) once its first 0 is replaced by o is rated
\* near-exact (0.99), although it is also one character apart.
C5_NearExact ==
    (/\ pc = "done"
     /\ lower(suspect_handle) # lower(OFFICIAL_HANDLE)
     /\ has_char(suspect_handle, "0")
     /\ lower(replace_first(suspect_handle, "0", "o")) = lower(OFFICIAL_HANDLE))
    => ret = 99

C5_Witness ==
    /\ pc = "done"
    /\ suspect_handle = <<"0","d","i","s","h","a","_","P","o","l","i","c","e">>
    /\ OneCharApart(suspect_handle, OFFICIAL_HANDLE)
    /\ ret = 99

\* C6: the level of a handle is the level of that handle with blanks added
\* around it or with its letters in another case.
C6_TrimAndCaseInvariant ==
    pc = "done" =>
        \A v \in Padded(suspect_handle) \cup CaseVariants(suspect_handle) \cup {lower(suspect_handle)} :
            get_similarity_score(v, OFFICIAL_HANDLE) = ret

----------------------------------------------------------------------------
(* Texts given to keyword_scan_score: up to MaxWords fragments in a row,   *)
(* and the placeholder text of the post field.                             *)

MaxWords == 2

Fragments ==
    << <<"U","R","G","E","N","T","!"," ">>,
       <<"S","e","n","d"," ","m","o","n","e","y">>,
       <<" ","n","o","w"," ">>,
       <<"w","a","l","l","e","t">>,
       <<"f","i","n","e","d",".">>,
       <<"u","r","g","e","n","t"," ","f","u","n","d","s">>,
       <<"O","T","P">>,
       <<"t","r","a","n","s","f","e","r"," ","n","o","w">>,
       <<"p","e","n","a","l","t","y">>,
       <<"a","c","c","o","u","n","t"," ","f","r","o","z","e","n">>,
       <<"K","Y","C"," ","u","p","d","a","t","e">>,
       <<"c","l","i","c","k"," ","l","i","n","k">>,
       <<"t","a","x"," ","r","e","f","u","n","d">>,
       <<"j","a","i","l">>,
       <<"h","e","l","l","o"," ">>,
       <<"s","e","n","d"," ">>,
       <<"m","o","n","e","y">>,
       <<"f","u","n","d">> >>

PlaceholderPost ==
    <<"U","R","G","E","N","T","!"," ","S","e","n","d"," ","m","o","n","e","y"," ","n","o","w"," ","t","o"," ","t","h","i","s"," ","w","a","l","l","e","t"," ","a","d","d","r","e","s","s"," ","o","r"," ","y","o","u"," ","w","i","l","l"," ","b","e"," ","f","i","n","e","d",".">>

RECURSIVE FragmentTexts(_)
FragmentTexts(n) ==
    IF n = 0 THEN {<<>>}
    ELSE LET prev == FragmentTexts(n - 1)
         IN  prev \cup {t \o Fragments[i] : t \in prev, i \in 1..Len(Fragments)}

KwTexts == FragmentTexts(MaxWords) \cup {PlaceholderPost}

InitKw ==
    /\ suspect_posts \in KwTexts
    /\ suspect_url = ""
    /\ suspect_handle = <<>>
    /\ urgency_tone_risk = UrgencyOptions[1]
    /\ phishing_link_risk = PhishingOptions[1]
    /\ risk_profile_selection = ProfileOptions[1]
    /\ profile_pic_stolen = PictureOptions[1]
    /\ domain_age_risk = DomainOptions[1]
    /\ NoSession
    /\ risk_score = 0
    /\ pc = "call"
    /\ ret = 0

\* behavior_risk_raw = keyword_scan_score(recent_posts)
EvalKeywords ==
    /\ pc = "call"
    /\ ret' = keyword_scan_score(suspect_posts)
    /\ pc' = "done"
    /\ UNCHANGED <<widgets, session_state, screen, calls, last_run, risk_score>>

NextKw == EvalKeywords

SpecKw == InitKw /\ [][NextKw]_vars

\* the phrases of the list that occur in the lower-cased text
PhrasesFound(text) ==
    {k \in 1..Len(fraud_keywords) : contains(lower(text), fraud_keywords[k])}

UrgentCombo(text) ==
    /\ contains(lower(text), kw_urgent)
    /\ contains(lower(text), kw_money) \/ contains(lower(text), kw_fund)

Unclamped(text) ==
    (IF UrgentCombo(text) THEN 25 ELSE 0) + 15 * Cardinality(PhrasesFound(text))

\* C3: the scan returns min(60, 25*[urgent and (money or fund)] + 15*(number
\* of listed phrases found)), always within 0..60; the placeholder text
\* scores 70 before the clamp and exactly 60 after it.
C3_KeywordScore ==
    pc = "done" =>
        /\ ret = Min(60, Unclamped(suspect_posts))
        /\ ret \in 0..60
        /\ suspect_posts = PlaceholderPost => (Unclamped(suspect_posts) = 70 /\ ret = 60)

C3_Witness ==
    /\ pc = "done"
    /\ suspect_posts = PlaceholderPost
    /\ Unclamped(suspect_posts) = 70
    /\ ret = 60

----------------------------------------------------------------------------
(* get_action_suggestion and risk_color on every score 0..100 (SpecTier)   *)

InitTier ==
    /\ risk_score \in 0..100
    /\ DefaultWidgets
    /\ NoSession
    /\ pc = "call"
    /\ ret = 0

\* line 558 and lines 183-188, for one final score
EvalSuggestion ==
    /\ pc = "call"
    /\ ret' = [suggestion |-> get_action_suggestion(risk_score),
               risk_color |-> risk_color_of(risk_score)]
    /\ pc' = "done"
    /\ UNCHANGED <<widgets, session_state, screen, calls, last_run, risk_score>>

NextTier == EvalSuggestion

SpecTier == InitTier /\ [][NextTier]_vars

\* the tier a suggestion stands for, read off its risk label
TierOf(suggestion) ==
    IF suggestion[3] = "HIGH RISK: IMMEDIATE TAKEDOWN REQUIRED" THEN "HIGH"
    ELSE IF suggestion[3] = "MEDIUM RISK: INVESTIGATE URGENTLY" THEN "MEDIUM"
    ELSE IF suggestion[3] = "LOW RISK: MONITOR" THEN "LOW"
    ELSE "NONE"

TierRank(tier) == IF tier = "HIGH" THEN 3 ELSE IF tier = "MEDIUM" THEN 2 ELSE 1

\* C2: every score 0..100 gets exactly one tier: HIGH from 70, MEDIUM from
\* 40 to 69, LOW below 40; and no smaller score gets a higher tier.
C2_TierTotalMonotonic ==
    pc = "done" =>
        LET tier == TierOf(ret.suggestion)
        IN  /\ tier \in {"HIGH", "MEDIUM", "LOW"}
            /\ (tier = "HIGH") <=> (risk_score >= 70)
            /\ (tier = "MEDIUM") <=> (40 <= risk_score /\ risk_score < 70)
            /\ (tier = "LOW") <=> (risk_score < 40)
            /\ \A smaller \in 0..risk_score :
                   TierRank(TierOf(get_action_suggestion(smaller))) <= TierRank(tier)

C2_Witness ==
    /\ pc = "done"
    /\ risk_score = 70
    /\ TierOf(ret.suggestion) = "HIGH"
    /\ TierOf(get_action_suggestion(40)) = "MEDIUM"
    /\ TierOf(get_action_suggestion(39)) = "LOW"

----------------------------------------------------------------------------
(* calculate_risk_score on handles of every similarity level, posts of     *)
(* several keyword scores and every combination of selections (SpecRisk)   *)

RiskHandles ==
    { OFFICIAL_HANDLE,
      <<"O","D","I","S","H","A","_","P","O","L","I","C","E">>,
      <<"0","d","i","s","h","a","_","P","o","l","i","c","e">>,
      <<"O","d","i","s","h","a","_","P","o","l","i","c","a">>,
      <<"f","a","k","e","_","c","o","p">> }

RiskPosts ==
    { <<"R","o","a","d"," ","c","l","o","s","e","d"," ","t","o","d","a","y">>,
      <<"s","h","a","r","e"," ","y","o","u","r"," ","O","T","P">>,
      PlaceholderPost }

InitRisk ==
    /\ suspect_url = "https://twitter.com/0disha_Police"
    /\ suspect_handle \in RiskHandles
    /\ suspect_posts \in RiskPosts
    /\ urgency_tone_risk \in Range(UrgencyOptions)
    /\ phishing_link_risk \in Range(PhishingOptions)
    /\ risk_profile_selection \in Range(ProfileOptions)
    /\ profile_pic_stolen \in Range(PictureOptions)
    /\ domain_age_risk \in Range(DomainOptions)
    /\ NoSession
    /\ risk_score = 0
    /\ pc = "call"
    /\ ret = <<0, EmptySessionState>>

\* lines 528-536: final_score, breakdown = calculate_risk_score(...)
EvalRisk ==
    /\ pc = "call"
    /\ ret' \in calculate_risk_score(suspect_handle, suspect_posts,
                                     is_established_account, domain_age_risk,
                                     profile_pic_stolen, urgency_tone_risk,
                                     phishing_link_risk)
    /\ pc' = "done"
    /\ UNCHANGED <<widgets, session_state, screen, calls, last_run, risk_score>>

NextRisk == EvalRisk

SpecRisk == InitRisk /\ [][NextRisk]_vars

\* C1: whatever the handle, the post, the selections and the random draws,
\* the final score returned is an integer from 0 to 100.
C1_FinalScoreInRange ==
    pc = "done" => ret[1] \in 0..100

\* a run whose sum and jitter reach the upper clamp, and the lowest run
C1_Witness ==
    /\ pc = "done"
    /\ ret[1] = 100
    /\ ret[2]["Identity Risk Points (Max 45)"] + ret[2]["Behavioral Risk Points (Max 40)"]
         + ret[2]["Network/Metadata Risk Points (Max 15)"] = 100

\* C7: the three contributions of the breakdown stay within their maxima:
\* identity 0..45, behavioral 0..40, network/metadata 0..15.
C7_ContributionMaxima ==
    pc = "done" =>
        /\ ret[2]["Identity Risk Points (Max 45)"] \in 0..45
        /\ ret[2]["Behavioral Risk Points (Max 40)"] \in 0..40
        /\ ret[2]["Network/Metadata Risk Points (Max 15)"] \in 0..15

\* the network points add up to 17 and 15 is reported
C7_Witness ==
    /\ pc = "done"
    /\ ~is_established_account
    /\ ret[2]["Domain Age Risk Points"] + ret[2]["Phishing Link Points"]
         + ret[2]["Stolen Picture Risk Points"] = 10
    /\ ret[2]["Network/Metadata Risk Points (Max 15)"] = 15
    /\ ret[2]["Identity Risk Points (Max 45)"] = 45
    /\ ret[2]["Behavioral Risk Points (Max 40)"] = 40

\* the clean run of C8: the official handle in any case, no fraud phrase,
\* established account, every selection at its lowest level
CleanRun ==
    /\ is_established_account
    /\ urgency_tone_risk = UrgencyOptions[1]
    /\ phishing_link_risk = PhishingOptions[1]
    /\ profile_pic_stolen = PictureOptions[1]
    /\ domain_age_risk = DomainOptions[1]
    /\ lower(suspect_handle) = lower(OFFICIAL_HANDLE)
    /\ PhrasesFound(suspect_posts) = {}
    /\ ~UrgentCombo(suspect_posts)

\* C8: a clean run has identity, behavioral and network points 0, a final
\* score from 0 to 5 whatever the jitter, and the tier LOW.
C8_CleanRunIsLow ==
    (pc = "done" /\ CleanRun) =>
        /\ ret[2]["Identity Risk Points (Max 45)"] = 0
        /\ ret[2]["Behavioral Risk Points (Max 40)"] = 0
        /\ ret[2]["Network/Metadata Risk Points (Max 15)"] = 0
        /\ ret[1] \in 0..5
        /\ TierOf(get_action_suggestion(ret[1])) = "LOW"

C8_Witness ==
    /\ pc = "done"
    /\ CleanRun
    /\ suspect_handle # OFFICIAL_HANDLE
    /\ ret[1] = 5

----------------------------------------------------------------------------
(* The session (Spec): every user action reruns the script from the top.   *)
(* The operator edits the three text fields and the account-age radio,     *)
(* presses the run button and the download button; the four select boxes   *)
(* stay at their first option.                                             *)

Urls == {"", "https://twitter.com/0disha_Police"}

SessionHandles == {<<>>, OFFICIAL_HANDLE, <<"0","d","i","s","h","a","_","P","o","l","i","c","e">>}

SessionPosts == {<<>>, <<"s","h","a","r","e"," ","y","o","u","r"," ","O","T","P">>}

\* line 518: not suspect_url or not suspect_handle or not suspect_posts
missing_input(url, handle, posts) == url = "" \/ handle = <<>> \/ posts = <<>>

\* lines 521-522 left out: the previous score stays
clear_previous_Keep(ss) == ss

\* lines 521-522: if 'final_score' in st.session_state: del ...final_score
clear_previous(ss) ==
    IF "final_score" \in DOMAIN ss
    THEN [k \in DOMAIN ss \ {"final_score"} |-> ss[k]]
    ELSE ss

\* lines 539-543: the five assignments to st.session_state
store_results(ss, final_score, breakdown, url, handle, posts) ==
    "suspect_posts" :> posts @@ "suspect_handle" :> handle @@ "suspect_url" :> url
    @@ "breakdown" :> breakdown @@ "final_score" :> final_score @@ ss

\* create_html_report: what the document embeds (its timestamp left out)
create_html_report(final_score, breakdown, url, handle, posts, suggestion_text, risk_label) ==
    [final_score |-> final_score, breakdown |-> breakdown, suspect_url |-> url,
     suspect_handle |-> handle, suspect_posts |-> posts,
     suggestion_text |-> suggestion_text, risk_label |-> risk_label,
     risk_color |-> risk_color_of(final_score),
     confidence |-> breakdown["Confidence Score (%)"]]

\* lines 548-616 with lines 552-554 left out: url, handle and posts keep the
\* values the widgets gave them at the top of the script
results_display_FromWidgets(ss, url, handle, posts) ==
    IF "final_score" \in DOMAIN ss
    THEN LET final_score == ss["final_score"]
             breakdown   == ss["breakdown"]
             suggestion  == get_action_suggestion(final_score)
         IN  [results |-> {[final_score |-> final_score, breakdown |-> breakdown,
                            suspect_url |-> url, suspect_handle |-> handle,
                            suspect_posts |-> posts,
                            confidence_score |-> breakdown["Confidence Score (%)"],
                            suggestion |-> suggestion]},
              report |-> {create_html_report(final_score, breakdown, url, handle,
                                             posts, suggestion[1], suggestion[3])}]
    ELSE [results |-> {}, report |-> {}]

\* lines 548-616: the result section and the download button, shown when
\* 'final_score' is in st.session_state; url, handle and posts are the values
\* of the widgets, which lines 552-554 overwrite
results_display(ss, url, handle, posts) ==
    IF "final_score" \in DOMAIN ss
    THEN LET final_score    == ss["final_score"]
             breakdown      == ss["breakdown"]
             stored_url     == ss["suspect_url"]
             stored_handle  == ss["suspect_handle"]
             stored_posts   == ss["suspect_posts"]
             suggestion     == get_action_suggestion(final_score)
         IN  [results |-> {[final_score |-> final_score, breakdown |-> breakdown,
                            suspect_url |-> stored_url, suspect_handle |-> stored_handle,
                            suspect_posts |-> stored_posts,
                            confidence_score |-> breakdown["Confidence Score (%)"],
                            suggestion |-> suggestion]},
              report |-> {create_html_report(final_score, breakdown, stored_url,
                                             stored_handle, stored_posts,
                                             suggestion[1], suggestion[3])}]
    ELSE [results |-> {}, report |-> {}]

\* the page one run of the script leaves
render(ss, error, success, url, handle, posts) ==
    LET shown == results_display(ss, url, handle, posts)
    IN  [error |-> error, success |-> success,
         results |-> shown.results, report |-> shown.report]

Init ==
    /\ DefaultWidgets
    /\ NoSession
    /\ risk_score = 0
    /\ pc = "start"
    /\ ret = 0

\* a rerun in which st.button returns False: lines 517-545 are skipped
Rerun ==
    /\ session_state' = session_state
    /\ calls' = {}
    /\ screen' = render(session_state', FALSE, FALSE, suspect_url', suspect_handle', suspect_posts')
    /\ UNCHANGED <<last_run, risk_score, ret>>

EditUrl ==
    /\ \E v \in Urls \ {suspect_url} : suspect_url' = v
    /\ UNCHANGED <<suspect_handle, suspect_posts, urgency_tone_risk, phishing_link_risk,
                   risk_profile_selection, profile_pic_stolen, domain_age_risk>>
    /\ pc' = "rerun"
    /\ Rerun

EditHandle ==
    /\ \E v \in SessionHandles \ {suspect_handle} : suspect_handle' = v
    /\ UNCHANGED <<suspect_url, suspect_posts, urgency_tone_risk, phishing_link_risk,
                   risk_profile_selection, profile_pic_stolen, domain_age_risk>>
    /\ pc' = "rerun"
    /\ Rerun

EditPosts ==
    /\ \E v \in SessionPosts \ {suspect_posts} : suspect_posts' = v
    /\ UNCHANGED <<suspect_url, suspect_handle, urgency_tone_risk, phishing_link_risk,
                   risk_profile_selection, profile_pic_stolen, domain_age_risk>>
    /\ pc' = "rerun"
    /\ Rerun

SelectProfile ==
    /\ \E v \in Range(ProfileOptions) \ {risk_profile_selection} :
           risk_profile_selection' = v
    /\ UNCHANGED <<suspect_url, suspect_handle, suspect_posts, urgency_tone_risk,
                   phishing_link_risk, profile_pic_stolen, domain_age_risk>>
    /\ pc' = "rerun"
    /\ Rerun

\* the download button is on the page only with a result; pressing it reruns
ClickDownload ==
    /\ screen.report # {}
    /\ UNCHANGED widgets
    /\ pc' = "rerun"
    /\ Rerun

\* lines 517-522, 548: the run button with a required field empty
RunBlocked ==
    /\ missing_input(suspect_url, suspect_handle, suspect_posts)
    /\ session_state' = clear_previous(session_state)
    /\ calls' = {}
    /\ screen' = render(session_state', TRUE, FALSE, suspect_url, suspect_handle, suspect_posts)
    /\ pc' = "run_button"
    /\ UNCHANGED <<widgets, last_run, risk_score, ret>>

\* lines 517-518, 523-545, 548: the run button with every field filled in
RunAnalysis ==
    /\ ~missing_input(suspect_url, suspect_handle, suspect_posts)
    /\ \E result \in calculate_risk_score(suspect_handle, suspect_posts,
                                           is_established_account, domain_age_risk,
                                           profile_pic_stolen, urgency_tone_risk,
                                           phishing_link_risk) :
          /\ session_state' = store_results(session_state, result[1], result[2],
                                            suspect_url, suspect_handle, suspect_posts)
          /\ last_run' = {[final_score |-> result[1], breakdown |-> result[2],
                           suspect_url |-> suspect_url, suspect_handle |-> suspect_handle,
                           suspect_posts |-> suspect_posts]}
    /\ calls' = {[handle |-> suspect_handle, recent_posts |-> suspect_posts,
                  is_established_account |-> is_established_account]}
    /\ screen' = render(session_state', FALSE, TRUE, suspect_url, suspect_handle, suspect_posts)
    /\ pc' = "run_button"
    /\ UNCHANGED <<widgets, risk_score, ret>>

Next ==
    \/ EditUrl
    \/ EditHandle
    \/ EditPosts
    \/ SelectProfile
    \/ ClickDownload
    \/ RunBlocked
    \/ RunAnalysis

Spec == Init /\ [][Next]_vars

----------------------------------------------------------------------------
(* Claims about the session (Spec)                                         *)

\* C9: right after the run button is pressed with the URL, the handle or the
\* post text empty, the error is on the page, calculate_risk_score was not
\* called, and neither a result nor the report download is on the page.
C9_BlockedRun ==
    (pc = "run_button" /\ (suspect_url = "" \/ suspect_handle = <<>> \/ suspect_posts = <<>>))
    => /\ screen.error
       /\ ~screen.success
       /\ calls = {}
       /\ screen.results = {}
       /\ screen.report = {}

\* a blocked run after an earlier run had succeeded: its leftovers are still
\* in the session state, and nothing of them is shown
C9_Witness ==
    /\ pc = "run_button"
    /\ suspect_handle = <<>>
    /\ last_run # {}
    /\ "breakdown" \in DOMAIN session_state
    /\ screen.error
    /\ screen.results = {}

SameRun(shown, run) ==
    /\ shown.final_score = run.final_score
    /\ shown.breakdown = run.breakdown
    /\ shown.suspect_url = run.suspect_url
    /\ shown.suspect_handle = run.suspect_handle
    /\ shown.suspect_posts = run.suspect_posts

ShownIsLatestRun ==
    screen.results # {} =>
        /\ last_run # {}
        /\ screen.report # {}
        /\ \A run \in last_run :
               /\ \A shown \in screen.results : SameRun(shown, run)
               /\ \A report \in screen.report : SameRun(report, run)

RerunKeepsResult ==
    pc' = "rerun" => (screen'.results = screen.results /\ screen'.report = screen.report)

\* C10: whenever a result is on the page, its score, breakdown, URL, handle
\* and post text, on the page and in the report, are those of the most
\* recent successful run; and a rerun without the run button (an edit, a
\* download) leaves the result on the page as it was.
C10_LatestRunShown == [](ShownIsLatestRun) /\ [][RerunKeepsResult]_vars

\* a result on the page while the handle field already holds another handle
C10_Witness ==
    /\ pc = "rerun"
    /\ screen.results # {}
    /\ \E shown \in screen.results :
           /\ shown.suspect_handle # suspect_handle
           /\ suspect_handle # <<>>
           /\ shown.suspect_url # suspect_url

----------------------------------------------------------------------------
(* Further claims about calculate_risk_score (SpecRisk)                    *)

ReportedSum ==
    ret[2]["Identity Risk Points (Max 45)"] + ret[2]["Behavioral Risk Points (Max 40)"]
    + ret[2]["Network/Metadata Risk Points (Max 15)"]

\* C11: the final score is the sum of the identity, behavioral and network
\* totals of the same breakdown plus a jitter from -5 to 5, clamped to
\* 0..100; so it is never more than 5 away from that sum.
C11_ScoreIsClampedSum ==
    pc = "done" =>
        /\ \E j \in -5..5 : ret[1] = Max(0, Min(100, ReportedSum + j))
        /\ ret[1] - ReportedSum \in -5..5

\* the upper clamp cuts a jitter of 5 down to 2
C11_Witness ==
    /\ pc = "done"
    /\ ReportedSum = 98
    /\ ret[1] = 100
    /\ ret[2]["Network/Metadata Risk Points (Max 15)"] = 15

\* C13: an exact or a dissimilar handle draws its confidence from 90.0 to
\* 99.9, a near-exact or single-char-diff handle from 70.0 to 89.9; the third
\* branch gives 50.0 to 69.9, and as the similarity is always one of the four
\* levels, no run draws from it.
C13_ConfidenceBand ==
    pc = "done" =>
        LET similarity == ret[2]["Handle Similarity Score (%)"]
            confidence == ret[2]["Confidence Score (%)"]
        IN  /\ similarity \in {10000, 9900, 9000, 2000}
            /\ similarity \in {10000, 2000} => confidence \in 9000..9990
            /\ similarity \in {9900, 9000} => confidence \in 7000..8990
            /\ confidence \notin 5000..6990
            /\ confidence_band(50) = <<5000, 6990>>

C13_Witness ==
    /\ pc = "done"
    /\ ret[2]["Handle Similarity Score (%)"] = 9000
    /\ ret[2]["Confidence Score (%)"] = 8990

OfficialLower == lower(OFFICIAL_HANDLE)

\* the handle equals the official handle, case ignored
MatchesOfficial(h) ==
    /\ Len(h) = Len(OFFICIAL_HANDLE)
    /\ \A i \in 1..Len(h) :
           h[i] = OFFICIAL_HANDLE[i] \/ lower_char(h[i]) = OfficialLower[i]

\* C14: a handle that matches the official handle, case ignored, has
\* identity points 0, a final score of at most 60 and the tier LOW or MEDIUM,
\* whatever the post, the selections and the draws.
C14_ExactMatchNeverHigh ==
    (pc = "done" /\ MatchesOfficial(suspect_handle)) =>
        /\ ret[2]["Identity Risk Points (Max 45)"] = 0
        /\ ret[1] <= 60
        /\ TierOf(get_action_suggestion(ret[1])) \in {"LOW", "MEDIUM"}

\* the highest score of an exact match: 40 + 15 + 5
C14_Witness ==
    /\ pc = "done"
    /\ MatchesOfficial(suspect_handle)
    /\ suspect_handle # OFFICIAL_HANDLE
    /\ ret[2]["Behavioral Risk Points (Max 40)"] = 40
    /\ ret[2]["Network/Metadata Risk Points (Max 15)"] = 15
    /\ ret[1] = 60
    /\ TierOf(get_action_suggestion(ret[1])) = "MEDIUM"

----------------------------------------------------------------------------
(* The colour of the report against the tier (SpecTier)                    *)

\* C12: for every score 0..100 the report is red exactly when the tier is
\* HIGH (score >= 70), amber exactly when it is MEDIUM (40 <= score < 70)
\* and green exactly when it is LOW (score < 40).
C12_ColorMatchesTier ==
    pc = "done" =>
        LET tier == TierOf(ret.suggestion)
        IN  /\ ret.risk_color \in {"#CC0000", "#FFCC00", "#008000"}
            /\ (ret.risk_color = "#CC0000") <=> (tier = "HIGH")
            /\ (ret.risk_color = "#FFCC00") <=> (tier = "MEDIUM")
            /\ (ret.risk_color = "#008000") <=> (tier = "LOW")
            /\ (ret.risk_color = "#CC0000") <=> (risk_score >= 70)
            /\ (ret.risk_color = "#008000") <=> (risk_score < 40)

C12_Witness ==
    /\ pc = "done"
    /\ risk_score = 40
    /\ ret.risk_color = "#FFCC00"
    /\ TierOf(ret.suggestion) = "MEDIUM"

====
